---- MODULE Spec2Model ----
(***************************************************************************)
(* A model of ytdl_cli: the selection parser (utils.py), the configuration *)
(* store (state.py), the downloader facade with its progress scanner       *)
(* (downloader.py) and the menu loop with the download workflow (cli.py,   *)
(* prompts.py).                                                            *)
(*                                                                         *)
(* Text is modelled as a sequence of one-character strings, so that strip, *)
(* lower, split, int() and str() are computed character by character.      *)
(***************************************************************************)
EXTENDS Integers, Sequences, FiniteSets, TLC

\* ------------------------------------------------------------------ bounds

\* Largest playlist length tried by the selection parser's specification.
MaxN == 3

\* Largest number of comma-separated terms in a selection text.
MaxTerms == 2

\* Largest number of output lines read from one download process.
MaxLines == 3

\* Largest number of lines the metadata call prints.
MaxMetaLines == 3

\* Largest number of characters put after the body of a file name.
MaxTail == 2

\* ------------------------------------------------------------ text helpers

\* the characters str.strip() and str.split() treat as whitespace
IsSpace(c) == c \in {" ", "\t", "\n"}

RECURSIVE LStrip(_)
LStrip(s) ==
    IF s # <<>> /\ IsSpace(Head(s)) THEN LStrip(Tail(s)) ELSE s

RECURSIVE RStrip(_)
RStrip(s) ==
    IF s # <<>> /\ IsSpace(s[Len(s)]) THEN RStrip(SubSeq(s, 1, Len(s) - 1)) ELSE s

\* str.strip()
Strip(s) == RStrip(LStrip(s))

LowerChar(c) ==
    CASE c = "A" -> "a"
      [] c = "L" -> "l"
      [] c = "X" -> "x"
      [] OTHER -> c

\* str.lower()
Lower(s) == [i \in 1..Len(s) |-> LowerChar(s[i])]

\* str.split(sep): the pieces between the occurrences of sep, at least one piece
RECURSIVE SplitOn(_, _)
SplitOn(s, sep) ==
    IF \E i \in 1..Len(s) : s[i] = sep
    THEN LET i == CHOOSE k \in 1..Len(s) :
                      s[k] = sep /\ \A j \in 1..(k - 1) : s[j] # sep
         IN  <<SubSeq(s, 1, i - 1)>> \o SplitOn(SubSeq(s, i + 1, Len(s)), sep)
    ELSE <<s>>

Digits == <<"0", "1", "2", "3", "4", "5", "6", "7", "8", "9">>

IsDigit(c) == \E d \in 1..10 : Digits[d] = c

DigitValue(c) == (CHOOSE d \in 1..10 : Digits[d] = c) - 1

RECURSIVE DigitsValue(_)
DigitsValue(s) ==
    IF s = <<>> THEN 0
    ELSE 10 * DigitsValue(SubSeq(s, 1, Len(s) - 1)) + DigitValue(s[Len(s)])

\* int(text): surrounding whitespace and one sign are accepted, then decimal
\* digits only; anything else is a ValueError (ok = FALSE).
int(s) ==
    LET t      == Strip(s)
        signed == t # <<>> /\ Head(t) \in {"+", "-"}
        d      == IF signed THEN Tail(t) ELSE t
    IN  IF d # <<>> /\ \A i \in 1..Len(d) : IsDigit(d[i])
        THEN [ok |-> TRUE,
              v  |-> IF signed /\ Head(t) = "-" THEN 0 - DigitsValue(d)
                     ELSE DigitsValue(d)]
        ELSE [ok |-> FALSE, v |-> 0]

\* str(n) for n >= 0
RECURSIVE str(_)
str(n) ==
    IF n < 10 THEN <<Digits[n + 1]>>
    ELSE str(n \div 10) \o <<Digits[(n % 10) + 1]>>

\* sorted(list(indices))
RECURSIVE sorted(_)
sorted(S) ==
    IF S = {} THEN <<>>
    ELSE LET m == CHOOSE x \in S : \A y \in S : x <= y
         IN  <<m>> \o sorted(S \ {m})

\* ------------------------------------------------- utils.parse_video_selection

\* What a call returns or raises: kind "ok" with the list in value, or kind
\* "error" with the ValueError's message (msg names the text before the colon,
\* part the text after it) and the chained exception in cause.
Returned(value) ==
    [kind |-> "ok", value |-> value, msg |-> "", part |-> <<>>, cause |-> ""]

Raised(msg, part, cause) ==
    [kind |-> "error", value |-> <<>>, msg |-> msg, part |-> part, cause |-> cause]

NotCalled ==
    [kind |-> "none", value |-> <<>>, msg |-> "", part |-> <<>>, cause |-> ""]

\* a buggy variant: the end of a range is not checked against the playlist length
RangeRejectedNoUpper(start_idx, end_idx, total_videos) ==
    start_idx < 1 \/ start_idx > end_idx

\* utils.py:105
RangeRejected(start_idx, end_idx, total_videos) ==
    start_idx < 1 \/ end_idx > total_videos \/ start_idx > end_idx

\* utils.py:115
IndexRejected(idx, total_videos) ==
    idx < 1 \/ idx > total_videos

\* a buggy variant: range(start_idx, end_idx) leaves the end out
RangeIndicesOpen(start_idx, end_idx) == start_idx..(end_idx - 1)

\* utils.py:108, range(start_idx, end_idx + 1)
RangeIndices(start_idx, end_idx) == start_idx..end_idx

\* One term of the comma-separated list (the body of the for loop): ok with
\* the positions to add, or the ValueError the except clause re-raises.
ParsePart(rawPart, total_videos) ==
    LET part == Strip(rawPart)
    IN  IF \E i \in 1..Len(part) : part[i] = "-"
        THEN LET pieces == SplitOn(part, "-")
             IN  IF Len(pieces) # 2
                 THEN [ok |-> FALSE, add |-> {},
                       err |-> Raised("Invalid range format", part, "unpack")]
                 ELSE LET s == int(pieces[1])
                          e == int(pieces[2])
                      IN  IF ~s.ok \/ ~e.ok
                          THEN [ok |-> FALSE, add |-> {},
                                err |-> Raised("Invalid range format", part,
                                               "invalid literal")]
                          ELSE IF RangeRejected(s.v, e.v, total_videos)
                          THEN [ok |-> FALSE, add |-> {},
                                err |-> Raised("Invalid range format", part,
                                               "Invalid range")]
                          ELSE [ok |-> TRUE, add |-> RangeIndices(s.v, e.v),
                                err |-> NotCalled]
        ELSE LET n == int(part)
             IN  IF ~n.ok
                 THEN [ok |-> FALSE, add |-> {},
                       err |-> Raised("Invalid number", part, "invalid literal")]
                 ELSE IF IndexRejected(n.v, total_videos)
                 THEN [ok |-> FALSE, add |-> {},
                       err |-> Raised("Invalid number", part, "Index out of range")]
                 ELSE [ok |-> TRUE, add |-> {n.v}, err |-> NotCalled]

\* The for loop over the parts: the first failing part raises.
RECURSIVE ParseParts(_, _, _)
ParseParts(parts, total_videos, indices) ==
    IF parts = <<>> THEN Returned(sorted(indices))
    ELSE LET r == ParsePart(Head(parts), total_videos)
         IN  IF r.ok
             THEN ParseParts(Tail(parts), total_videos, indices \cup r.add)
             ELSE r.err

\* a buggy variant: the text is not lowered before it is compared with "all"
parse_video_selection_case_sensitive(selection, total_videos) ==
    LET sel == Strip(selection)
    IN  IF sel = <<"a", "l", "l">>
        THEN Returned([i \in 1..total_videos |-> i])
        ELSE ParseParts(SplitOn(sel, ","), total_videos, {})

parse_video_selection(selection, total_videos) ==
    LET sel == Lower(Strip(selection))
    IN  IF sel = <<"a", "l", "l">>
        THEN Returned([i \in 1..total_videos |-> i])
        ELSE ParseParts(SplitOn(sel, ","), total_videos, {})

\* ------------------------------------------------ selection texts to try

\* Terms that are not a plain number or a plain range.
RawTerms ==
    << <<"a", "l", "l">>,
       <<" ", "A", "l", "L", " ">>,
       <<>>,
       <<"x">>,
       <<" ", "2", " ">>,
       <<"1", "-">>,
       <<"1", "-", "2", "-", "2">>,
       <<"1", " ", "-", " ", "2">>,
       <<"0", "2">>,
       <<"x", "-", "1">>,
       <<" ">> >>

\* A typed term: a position, a range of positions, or one of RawTerms.
Terms ==
    [kind : {"num"}, a : 0..(MaxN + 1), b : {0}]
      \cup [kind : {"range"}, a : 0..(MaxN + 1), b : 0..(MaxN + 1)]
      \cup [kind : {"raw"}, a : 1..Len(RawTerms), b : {0}]

\* The word "all" in each casing (a: which letters are capitals) and with
\* whitespace before it, after it, both or neither (b).
AllTerms == [kind : {"all"}, a : 0..7, b : 0..3]

AllText(t) ==
    LET word == << IF (t.a \div 4) % 2 = 1 THEN "A" ELSE "a",
                   IF (t.a \div 2) % 2 = 1 THEN "L" ELSE "l",
                   IF t.a % 2 = 1 THEN "L" ELSE "l" >>
    IN  (IF t.b % 2 = 1 THEN <<" ">> ELSE <<>>)
          \o word
          \o (IF t.b \div 2 = 1 THEN <<"\t", " ">> ELSE <<>>)

TermText(t) ==
    CASE t.kind = "num" -> str(t.a)
      [] t.kind = "range" -> str(t.a) \o <<"-">> \o str(t.b)
      [] t.kind = "all" -> AllText(t)
      [] OTHER -> RawTerms[t.a]

\* the terms joined by commas: the text the user types
RECURSIVE SelectionText(_)
SelectionText(ts) ==
    IF Len(ts) = 0 THEN <<>>
    ELSE IF Len(ts) = 1 THEN TermText(ts[1])
    ELSE TermText(ts[1]) \o <<",">> \o SelectionText(Tail(ts))

\* the selections tried: up to MaxTerms terms, or the word "all" alone
TermSeqs ==
    UNION {[1..n -> Terms] : n \in 1..MaxTerms} \cup {<<t>> : t \in AllTerms}

\* ------------------------------------------------------- state.Config

\* Python's None, and a key the document does not hold
None == <<"None">>

\* Path.home() / "Downloads" / "YouTube", as text (state.py:16)
base_download_dir == <<"/", "home", "/", "Downloads", "/", "YouTube">>

IsPathComponent(c) == c # <<>> /\ c # <<".">>

RECURSIVE JoinWith(_, _)
JoinWith(pieces, sep) ==
    IF Len(pieces) = 0 THEN <<>>
    ELSE IF Len(pieces) = 1 THEN pieces[1]
    ELSE pieces[1] \o <<sep>> \o JoinWith(Tail(pieces), sep)

\* str(Path(text)), POSIX flavour: repeated and trailing slashes and "."
\* components are dropped, a leading slash is kept (exactly two are kept as
\* two), and the empty path is ".".
PathStr(text) ==
    LET comps == SelectSeq(SplitOn(text, "/"), IsPathComponent)
        root  == IF Len(text) >= 1 /\ text[1] = "/"
                 THEN IF Len(text) >= 2 /\ text[2] = "/"
                         /\ ~(Len(text) >= 3 /\ text[3] = "/")
                      THEN <<"/", "/">>
                      ELSE <<"/">>
                 ELSE <<>>
    IN  IF comps = <<>> /\ root = <<>> THEN <<".">>
        ELSE root \o JoinWith(comps, "/")

\* The backing document config.json: missing, not JSON ("corrupt"), JSON that
\* is not an object ("nonmap"), or an object ("map") with its three keys.
Document(kind, last_quality, download_dir, last_used_dir) ==
    [kind |-> kind, last_quality |-> last_quality,
     download_dir |-> download_dir, last_used_dir |-> last_used_dir]

MissingDoc == Document("missing", None, None, None)

CorruptDoc == Document("corrupt", None, None, None)

NonMapDoc == Document("nonmap", None, None, None)

\* what _ensure_config_exists writes on the first run (state.py:24-27)
FirstRunDoc == Document("map", <<"7", "2", "0">>, base_download_dir, None)

\* _read_config: the parsed JSON; {} for a missing file or a JSONDecodeError
read_config(d) ==
    CASE d.kind = "map" -> [isdict |-> TRUE, m |-> d]
      [] d.kind = "nonmap" -> [isdict |-> FALSE, m |-> d]
      [] OTHER -> [isdict |-> TRUE, m |-> Document("map", None, None, None)]

\* what an accessor returns, or the exception it raises
Value(v) == [raised |-> FALSE, exc |-> "", value |-> v]

Raise(exc) == [raised |-> TRUE, exc |-> exc, value |-> None]

\* dict.get(key, default)
GetOr(v, default) == IF v = None THEN default ELSE v

get_last_quality(d) ==
    LET config == read_config(d)
    IN  IF ~config.isdict THEN Raise("AttributeError")
        ELSE Value(GetOr(config.m.last_quality, <<"7", "2", "0">>))

\* returns a Path: the value is the path's text
get_download_dir(d) ==
    LET config == read_config(d)
    IN  IF ~config.isdict THEN Raise("AttributeError")
        ELSE Value(PathStr(GetOr(config.m.download_dir, base_download_dir)))

get_last_used_dir(d) ==
    LET config    == read_config(d)
        last_used == config.m.last_used_dir
    IN  IF ~config.isdict THEN Raise("AttributeError")
        ELSE IF last_used # None /\ last_used # <<>>
                /\ last_used # get_download_dir(d).value
        THEN Value(last_used)
        ELSE Value(None)

\* A mutator: [raised, exc, doc], doc being the document afterwards. Item
\* assignment on JSON that is not an object raises TypeError before any write.
Written(d) == [raised |-> FALSE, exc |-> "", doc |-> d]

WriteFailed(exc, d) == [raised |-> TRUE, exc |-> exc, doc |-> d]

set_last_quality(d, quality) ==
    LET config == read_config(d)
    IN  IF ~config.isdict THEN WriteFailed("TypeError", d)
        ELSE Written([config.m EXCEPT !.last_quality = quality])

\* a buggy variant: the document is rebuilt without the last used directory
set_download_dir_drops_last_used(d, directory) ==
    LET config == read_config(d)
    IN  IF ~config.isdict THEN WriteFailed("TypeError", d)
        ELSE Written([config.m EXCEPT !.download_dir = directory,
                                      !.last_used_dir = None])

set_download_dir(d, directory) ==
    LET config == read_config(d)
    IN  IF ~config.isdict THEN WriteFailed("TypeError", d)
        ELSE Written([config.m EXCEPT !.download_dir = directory])

\* a buggy variant: the directory is stored under the key download_dir
set_last_used_dir_wrong_key(d, directory) ==
    LET config == read_config(d)
    IN  IF ~config.isdict THEN WriteFailed("TypeError", d)
        ELSE Written([config.m EXCEPT !.download_dir = directory])

set_last_used_dir(d, directory) ==
    LET config == read_config(d)
    IN  IF ~config.isdict THEN WriteFailed("TypeError", d)
        ELSE Written([config.m EXCEPT !.last_used_dir = directory])

\* values the accessors' specification stores
QualityTexts ==
    { <<"7", "2", "0">>, <<"1", "0", "8", "0">>,
      <<"1", "0", "8", "0", " ", "(", "F", "H", "D", ")">> }

DirTexts ==
    { base_download_dir, <<"/", "d">>, <<"/", "d", "/">>, <<"e", "/", "/", "f">>,
      <<>> }

NoCall == [op |-> "none", arg |-> None, out |-> Value(None)]

\* -------------------------------------- downloader: the progress scanner

\* A line of the external process's output is a sequence of atoms: the words
\* the scanner looks for ("[download]", "Destination:", "has already been
\* downloaded", "ERROR", ...) are one atom each, everything else is one
\* character per atom. The line terminator is left out.

\* pattern in line, for a pattern given as atoms
Contains(line, pat) ==
    \E i \in 1..(Len(line) - Len(pat) + 1) :
        SubSeq(line, i, i + Len(pat) - 1) = pat

UpperAtom(a) ==
    CASE a = "error" -> "ERROR"
      [] a = "Error" -> "ERROR"
      [] OTHER -> a

\* 'ERROR' in l.upper() or 'error' in l   (downloader.py:247)
IsErrorLine(l) == \E i \in 1..Len(l) : UpperAtom(l[i]) = "ERROR"

\* str.split(): the maximal runs of atoms that are not whitespace
RECURSIVE WsSplit(_)
WsSplit(s) ==
    LET t == LStrip(s)
    IN  IF t = <<>> THEN <<>>
        ELSE LET n == IF \E i \in 1..Len(t) : IsSpace(t[i])
                      THEN (CHOOSE k \in 1..Len(t) :
                                IsSpace(t[k]) /\ \A j \in 1..(k - 1) : ~IsSpace(t[j])) - 1
                      ELSE Len(t)
             IN  <<SubSeq(t, 1, n)>> \o WsSplit(SubSeq(t, n + 1, Len(t)))

RECURSIVE Pow10(_)
Pow10(k) == IF k = 0 THEN 1 ELSE 10 * Pow10(k - 1)

AllDigits(s) == \A i \in 1..Len(s) : IsDigit(s[i])

\* float(text) for the decimal notation [sign] digits [. digits]: the value is
\* the fraction n / d. Anything else is a ValueError (ok = FALSE).
float(text) ==
    LET signed == text # <<>> /\ text[1] \in {"+", "-"}
        body   == IF signed THEN Tail(text) ELSE text
        pieces == SplitOn(body, ".")
        whole  == pieces[1]
        frac   == IF Len(pieces) = 2 THEN pieces[2] ELSE <<>>
        mag    == DigitsValue(whole \o frac)
    IN  IF Len(pieces) <= 2 /\ AllDigits(whole) /\ AllDigits(frac)
           /\ whole \o frac # <<>>
        THEN [ok |-> TRUE,
              n  |-> IF signed /\ text[1] = "-" THEN 0 - mag ELSE mag,
              d  |-> Pow10(Len(frac))]
        ELSE [ok |-> FALSE, n |-> 0, d |-> 1]

\* the number handed to progress.update(completed=...), as the fraction n / d
Number(n, d) == [n |-> n, d |-> d]

\* line.split('%')[0].split()[-1], then float(): ok = FALSE stands for the
\* IndexError or ValueError the except clause swallows
ParsePercent(line) ==
    LET tokens == WsSplit(SplitOn(line, "%")[1])
    IN  IF tokens = <<>> THEN [ok |-> FALSE, n |-> 0, d |-> 1]
        ELSE float(tokens[Len(tokens)])

\* '[download]' in line and '%' in line
IsProgressLine(line) ==
    Contains(line, <<"[download]">>) /\ Contains(line, <<"%">>)

\* '[download] Destination:' in line
IsDestinationLine(line) ==
    Contains(line, <<"[download]", " ", "Destination:">>)

\* 'has already been downloaded' in line or '100%' in line
IsCompletionLine(line) ==
    \/ Contains(line, <<"has already been downloaded">>)
    \/ Contains(line, <<"1", "0", "0", "%">>)

\* Path(filename).name
PathName(filename) ==
    LET comps == SelectSeq(SplitOn(filename, "/"), IsPathComponent)
    IN  IF comps = <<>> THEN <<>> ELSE comps[Len(comps)]

\* longest display name shown in full (downloader.py:347)
NameLimit == 40

\* characters kept in front of the ellipsis (downloader.py:348)
NameKept == 37

\* downloader.py:345-348
DisplayName(line) ==
    LET filename == Strip(SplitOn(line, "Destination:")[2])
        name     == PathName(filename)
    IN  IF Len(name) > NameLimit
        THEN SubSeq(name, 1, NameKept) \o <<".", ".", ".">>
        ELSE name

\* The progress task: its description and its completed value.
Task(description, completed) ==
    [description |-> description, completed |-> completed]

\* progress.add_task("Downloading...", total=100)
NewTask == Task(<<"Downloading...">>, Number(0, 1))

\* a buggy variant: a percentage that does not parse resets the bar
ScanSingleResets(task, line) ==
    IF IsProgressLine(line)
    THEN IF ParsePercent(line).ok
         THEN Task(task.description,
                   Number(ParsePercent(line).n, ParsePercent(line).d))
         ELSE Task(task.description, Number(0, 1))
    ELSE task

\* the loop body of download_single_video (downloader.py:232-240)
ScanSingle(task, line) ==
    IF IsProgressLine(line) /\ ParsePercent(line).ok
    THEN Task(task.description,
              Number(ParsePercent(line).n, ParsePercent(line).d))
    ELSE task

\* the loop body of download_playlist (downloader.py:343-362)
ScanPlaylist(task, line) ==
    IF IsDestinationLine(line)
    THEN Task(DisplayName(line), Number(0, 1))
    ELSE IF IsProgressLine(line)
    THEN IF ParsePercent(line).ok
         THEN Task(task.description,
                   Number(ParsePercent(line).n, ParsePercent(line).d))
         ELSE task
    ELSE IF IsCompletionLine(line)
    THEN Task(task.description, Number(100, 1))
    ELSE task

\* seq[-n:]
LastN(seq, n) ==
    IF Len(seq) <= n THEN seq ELSE SubSeq(seq, Len(seq) - n + 1, Len(seq))

\* lines of the fallback when no line mentions an error (downloader.py:249)
FallbackLines == 10

\* lines printed (downloader.py:252)
PrintedLines == 5

\* what download_single_video prints after a non-zero exit
\* (downloader.py:247-253)
SingleDiagnostics(all_output) ==
    LET matching    == SelectSeq(all_output, IsErrorLine)
        error_lines == IF matching = <<>> THEN LastN(all_output, FallbackLines)
                       ELSE matching
        printed     == LastN(error_lines, PrintedLines)
    IN  [i \in 1..Len(printed) |-> Strip(printed[i])]

\* downloader.py:245
ExitFailed(returncode) == returncode # 0

\* downloader.py:366
ExitSucceeded(returncode) == returncode = 0

\* exit statuses of the external process; a negative one is a signal's
ExitCodes == {0, 1, 2, 0 - 9}

\* a file name one character longer than the display shows in full
LongName == [i \in 1..(NameLimit + 1) |-> "n"]

\* Output lines the external download process may print.
Lines ==
    { <<"[download]", " ", "Destination:", " ", "d", "/", "c", ".", "m", "p", "4">>,
      <<"[download]", " ", " ", "5", "7", ".", "3", "%", " ", "o", "f", " ", "x">>,
      <<"[download]", " ", "1", "0", "0", "%", " ", "o", "f", " ", "x">>,
      <<"[download]", " ", "c", ".", "m", "p", "4", " ",
        "has already been downloaded">>,
      <<"[download]", " ", "Destination:", " ",
        "2", "0", "0", "%", " ", "c", ".", "m", "p", "4">>,
      <<"[download]", " ", "Unknown", "%", " ", "o", "f", " ", "x">>,
      <<"ERROR", ":", " ", "x">>,
      <<"[info]", " ", "Error", " ", "x">>,
      <<"[info]", " ", "x">>,
      <<"[Merger]", " ", "1", "0", "0", "%">>,
      <<"[download]", " ", "Destination:", " ", "d", "/">> \o LongName }

\* ------------------------------------------------ utils, prompts and cli

\* utils.get_quality_choices (utils.py:62-71)
get_quality_choices ==
    << <<"2", "1", "6", "0", "p", " ", "(", "4", "K", ")">>,
       <<"1", "4", "4", "0", "p", " ", "(", "2", "K", ")">>,
       <<"1", "0", "8", "0", "p", " ", "(", "F", "H", "D", ")">>,
       <<"7", "2", "0", "p", " ", "(", "H", "D", ")">>,
       <<"4", "8", "0", "p", " ", "(", "S", "D", ")">>,
       <<"3", "6", "0", "p">>,
       <<"2", "4", "0", "p">>,
       <<"1", "4", "4", "p">> >>

QualityChoices == {get_quality_choices[i] : i \in 1..Len(get_quality_choices)}

NotP(c) == c # "p"

\* quality.replace('p', '')
RemoveP(quality) == SelectSeq(quality, NotP)

\* text.split()[0]
FirstWord(text) == WsSplit(text)[1]

\* q.startswith(prefix)
StartsWith(q, prefix) ==
    Len(prefix) <= Len(q) /\ SubSeq(q, 1, Len(prefix)) = prefix

\* next((q for q in quality_choices if q.startswith(num)), quality_choices[3])
\* (cli.py:71, prompts.py:403)
LabelFor(num) ==
    IF \E i \in 1..Len(get_quality_choices) : StartsWith(get_quality_choices[i], num)
    THEN get_quality_choices[
             CHOOSE i \in 1..Len(get_quality_choices) :
                 /\ StartsWith(get_quality_choices[i], num)
                 /\ \A j \in 1..(i - 1) : ~StartsWith(get_quality_choices[j], num)]
    ELSE get_quality_choices[4]

\* the characters of r'[<>:"/\\|?*]' (utils.py:18)
invalid_chars == {"<", ">", ":", "\"", "/", "\\", "|", "?", "*"}

\* re.sub(invalid_chars, '_', filename)
ReplaceInvalid(text) ==
    [i \in 1..Len(text) |-> IF text[i] \in invalid_chars THEN "_" ELSE text[i]]

IsDotOrSpace(c) == c \in {".", " "}

\* str.strip('. ')
RECURSIVE StripDotsAndSpaces(_)
StripDotsAndSpaces(text) ==
    IF text # <<>> /\ IsDotOrSpace(Head(text))
    THEN StripDotsAndSpaces(Tail(text))
    ELSE IF text # <<>> /\ IsDotOrSpace(text[Len(text)])
    THEN StripDotsAndSpaces(SubSeq(text, 1, Len(text) - 1))
    ELSE text

\* longest file name kept (utils.py:25-26)
NameMax == 200

\* utils.sanitize_filename (utils.py:8-28)
sanitize_filename(name) ==
    LET stripped == StripDotsAndSpaces(ReplaceInvalid(name))
    IN  IF Len(stripped) > NameMax THEN SubSeq(stripped, 1, NameMax) ELSE stripped

\* File names to sanitize: a first character or none, a body of letters that
\* is empty or about as long as the limit, and up to MaxTail more characters.
NameChars == {"b", " ", ".", "/", "\\"}

NameBodies == {[i \in 1..k |-> "a"] : k \in {0} \cup ((NameMax - 3)..(NameMax + 1))}

NameTails == UNION {[1..n -> NameChars] : n \in 0..MaxTail}

FileNames ==
    {head \o body \o tail :
        head \in {<<>>} \cup {<<c>> : c \in NameChars},
        body \in NameBodies,
        tail \in NameTails}

\* the fallback chain for a height, as atoms (utils.py:45-51)
FormatChain(height) ==
    <<"bestvideo", "[height<=">> \o height
        \o <<"]", "[ext=mp4]", "+", "bestaudio", "[ext=m4a]", "/">>
      \o <<"bestvideo", "[height<=">> \o height \o <<"]", "+", "bestaudio", "/">>
      \o <<"best", "[height<=">> \o height \o <<"]", "[ext=mp4]", "/">>
      \o <<"best", "[height<=">> \o height \o <<"]", "/">>
      \o <<"best">>

\* a buggy variant: the label's suffix is not cut off
build_format_string_whole_label(quality) ==
    Value(FormatChain(Strip(RemoveP(quality))))

\* utils.build_format_string (utils.py:31-53): split()[0] raises IndexError
\* for a text without a word
build_format_string(quality) ==
    LET words == WsSplit(RemoveP(quality))
    IN  IF words = <<>>
        THEN Raise("IndexError")
        ELSE Value(FormatChain(Strip(words[1])))

\* format_str in download_single_video and download_playlist
\* (downloader.py:185-186, 290-291)
format_str(quality) == build_format_string(RemoveP(quality)).value

\* prompts.prompt_quality: the answer, or the default when the prompt is
\* cancelled (answer None)
prompt_quality(default_quality, answer) ==
    LET default == IF default_quality \notin QualityChoices
                   THEN get_quality_choices[4]
                   ELSE default_quality
    IN  IF answer = None THEN default ELSE answer

\* what the workflow saves after the confirmation (cli.py:99, 129)
SavedByWorkflow(quality) == RemoveP(quality)

\* what the settings menu saves (prompts.py:427)
SavedBySettings(new_quality) == Strip(FirstWord(RemoveP(new_quality)))

\* URLs the user may paste, as atoms; None when the prompt is cancelled
Urls ==
    { <<"https://", "www.", "youtube.com", "/", "x">>,
      <<"https://", "youtu.be", "/", "x">>,
      <<"https://", "example.com", "/", "x">>,
      None }

\* prompts.prompt_url
prompt_url(answer) == IF answer = None THEN <<>> ELSE Strip(answer)

\* cli.py:45
IsYouTubeUrl(url) ==
    Contains(url, <<"youtube.com">>) \/ Contains(url, <<"youtu.be">>)

\* directories the user may type at the custom-directory prompt
CustomPaths == { <<"/", "d">> }

\* answers to the directory prompt: a menu choice and, for the custom
\* directory, the path typed (None when cancelled) and whether mkdir worked
DirAnswers ==
    [choice : {"Default", "Previous", "None"}, path : {None}, mkdir : {TRUE}]
      \cup [choice : {"Custom"}, path : CustomPaths \cup {None}, mkdir : BOOLEAN]

\* prompts.prompt_download_directory: the directory chosen. A path whose
\* mkdir fails ends, once the user declines to try again, with the default.
prompt_download_directory(default_dir, last_used, answer) ==
    CASE answer.choice \in {"None", "Default"} -> default_dir
      [] answer.choice = "Previous" /\ last_used # None -> last_used
      [] OTHER ->
           IF answer.path \in {None, <<>>, default_dir} THEN default_dir
           ELSE IF answer.mkdir THEN PathStr(Strip(answer.path))
           ELSE default_dir

\* One line of the metadata call's output: a JSON object of type playlist, a
\* JSON object of a video, or text that is not JSON.
MetaLineKinds == {"playlist", "video", "garbage"}

\* How the metadata call can end: the tool cannot be started, it exits with
\* a non-zero status, its output is not UTF-8, or it exits with 0 and prints
\* the given lines.
MetaRun(how, lines) == [how |-> how, lines |-> lines]

MetaRuns ==
    {MetaRun(how, <<>>) : how \in {"missing", "nonzero", "not_utf8"}}
      \cup {MetaRun("ok", ls) :
               ls \in UNION {[1..n -> MetaLineKinds] : n \in 0..MaxMetaLines}}

\* what fetch_metadata returns or raises
Info(exc, is_playlist, entries) ==
    [exc |-> exc, is_playlist |-> is_playlist, entries |-> entries]

\* Downloader.fetch_metadata (downloader.py:105-151): CalledProcessError and
\* JSONDecodeError become RuntimeError; nothing else is caught.
fetch_metadata(run) ==
    LET lines   == run.lines
        garbage == \E i \in 1..Len(lines) : lines[i] = "garbage"
    IN  CASE run.how = "missing" -> Info("FileNotFoundError", FALSE, 0)
          [] run.how = "not_utf8" -> Info("UnicodeDecodeError", FALSE, 0)
          [] run.how = "nonzero" -> Info("RuntimeError", FALSE, 0)
          [] OTHER ->
               IF Len(lines) = 0 \/ garbage THEN Info("RuntimeError", FALSE, 0)
               ELSE IF Len(lines) > 1
               THEN IF lines[1] = "playlist"
                    THEN Info("", TRUE, Len(lines) - 1)
                    ELSE Info("", TRUE, Len(lines))
               ELSE Info("", lines[1] = "playlist", 0)

\* Downloader.is_playlist (downloader.py:162-163)
is_playlist(info) == info.is_playlist \/ info.entries > 0

\* How a download call can end: the process cannot be started, reading its
\* output raises (download_playlist only), or it is read to the end and
\* exits with a status.
DownloadRuns ==
    [started : {FALSE}, raised : {FALSE}, code : {0}]
      \cup [started : {TRUE}, raised : {TRUE}, code : {0}]
      \cup [started : {TRUE}, raised : {FALSE}, code : ExitCodes]

\* the value download_single_video / download_playlist returns
download_returns(mode, run) ==
    IF ~run.started THEN FALSE
    ELSE IF run.raised /\ mode = "playlist" THEN FALSE
    ELSE IF mode = "single" THEN ~ExitFailed(run.code)
    ELSE ExitSucceeded(run.code)

\* ------------------------------------------------------------------ state

VARIABLES
    typed,          \* the terms of the selection text, as the user means them
    selection,      \* parse_video_selection's argument selection
    total_videos,   \* parse_video_selection's argument total_videos
    parsed,         \* what the call returned or raised (NotCalled before it)
    doc,            \* the backing document config.json
    call,           \* the last Config accessor called: [op, arg, out]
    dlMode,         \* "single": download_single_video, "playlist": download_playlist
    dlPc,           \* where the download call is: idle, call, reading, waiting, returned
    proc,           \* the external download process: [state, code]
    returncode,     \* what process.wait() returned: [known, code]
    all_output,     \* download_single_video's list of the lines read
    stdoutRead,     \* every line read from process.stdout so far
    task,           \* the progress task: [description, completed]
    shown,          \* the diagnostic lines printed after a failure
    dlExc,          \* the exception the except clause caught, "" if none
    dlRet,          \* the value the download call returned
    pc,             \* what main is waiting for: a prompt's answer or a call's end
    wf,             \* download_workflow's local variables
    base_dir,       \* Downloader.base_download_dir
    wfResult,       \* what download_workflow returned last: [returned, code]
    status,         \* what main returned: [returned, code]
    escaped,        \* the exception that reached main's handlers, "" if none
    extCall,        \* the external call made last in this workflow: [name, failed]
    interrupted,    \* whether the user has pressed Ctrl-C during this run
    filename,       \* sanitize_filename's argument
    sanitized       \* what sanitize_filename returned: [called, value]

parseVars == <<typed, selection, total_videos, parsed>>

cfgVars == <<doc, call>>

dlVars ==
    <<dlMode, dlPc, proc, returncode, all_output, stdoutRead, task, shown,
      dlExc, dlRet>>

mainVars == <<pc, wf, base_dir, wfResult, status, escaped, extCall, interrupted>>

vars ==
    <<typed, selection, total_videos, parsed, doc, call,
      dlMode, dlPc, proc, returncode, all_output, stdoutRead, task, shown,
      dlExc, dlRet, pc, wf, base_dir, wfResult, status, escaped, extCall,
      interrupted, filename, sanitized>>

ParseIdle ==
    /\ typed = <<>>
    /\ selection = <<>>
    /\ total_videos = 0
    /\ parsed = NotCalled

CfgIdle ==
    /\ doc = FirstRunDoc
    /\ call = NoCall

NoProcess == [state |-> "none", code |-> 0]

NotWaited == [known |-> FALSE, code |-> 0]

\* the download call's own state before subprocess.Popen
DlFresh ==
    /\ proc = NoProcess
    /\ returncode = NotWaited
    /\ all_output = <<>>
    /\ stdoutRead = <<>>
    /\ task = NewTask
    /\ shown = <<>>
    /\ dlExc = ""
    /\ dlRet = FALSE

DlIdle ==
    /\ dlMode = "single"
    /\ dlPc = "idle"
    /\ DlFresh

sanVars == <<filename, sanitized>>

\* sanitize_filename is not in use
SanIdle ==
    /\ filename = <<>>
    /\ sanitized = [called |-> FALSE, value |-> <<>>]

NotReturned == [returned |-> FALSE, code |-> 0]

Returns(code) == [returned |-> TRUE, code |-> code]

\* download_workflow's locals before they are assigned
NoLocals ==
    [default_dir |-> None, is_playlist |-> FALSE, entries |-> 0,
     folder_name |-> "", video_indices |-> <<>>, last_quality |-> None,
     quality |-> None, format_str |-> <<>>]

NoExternalCall == [name |-> "none", failed |-> FALSE]

\* main is not running
MainIdle ==
    /\ pc = "off"
    /\ wf = NoLocals
    /\ base_dir = PathStr(base_download_dir)
    /\ wfResult = NotReturned
    /\ status = NotReturned
    /\ escaped = ""
    /\ extCall = NoExternalCall
    /\ interrupted = FALSE

\* ------------------------------------------- specification of the parser

ParseInit ==
    /\ typed \in TermSeqs
    /\ selection = SelectionText(typed)
    /\ total_videos \in 0..MaxN
    /\ parsed = NotCalled
    /\ CfgIdle
    /\ DlIdle
    /\ MainIdle
    /\ SanIdle

ParseCall ==
    /\ parsed.kind = "none"
    /\ parsed' = parse_video_selection(selection, total_videos)
    /\ UNCHANGED <<typed, selection, total_videos>>
    /\ UNCHANGED cfgVars
    /\ UNCHANGED dlVars
    /\ UNCHANGED sanVars
    /\ UNCHANGED mainVars

ParseNext == ParseCall

SpecParse == ParseInit /\ [][ParseNext]_vars

\* ------------------------------------ specification of the Config accessors

\* After construction the file exists: written by the first run, or left by
\* an earlier run or by the user in any condition.
CfgInit ==
    /\ doc \in {FirstRunDoc, CorruptDoc, NonMapDoc}
    /\ call = NoCall
    /\ ParseIdle
    /\ DlIdle
    /\ MainIdle
    /\ SanIdle

CfgSet(op, v, w) ==
    /\ doc' = w.doc
    /\ call' = [op |-> op, arg |-> v,
                out |-> IF w.raised THEN Raise(w.exc) ELSE Value(None)]
    /\ UNCHANGED parseVars
    /\ UNCHANGED dlVars
    /\ UNCHANGED sanVars
    /\ UNCHANGED mainVars

CfgSetLastQuality ==
    \E v \in QualityTexts : CfgSet("set_last_quality", v, set_last_quality(doc, v))

CfgSetDownloadDir ==
    \E v \in DirTexts : CfgSet("set_download_dir", v, set_download_dir(doc, v))

CfgSetLastUsedDir ==
    \E v \in DirTexts : CfgSet("set_last_used_dir", v, set_last_used_dir(doc, v))

CfgGet(op, out) ==
    /\ call' = [op |-> op, arg |-> None, out |-> out]
    /\ UNCHANGED doc
    /\ UNCHANGED parseVars
    /\ UNCHANGED dlVars
    /\ UNCHANGED sanVars
    /\ UNCHANGED mainVars

CfgGetLastQuality == CfgGet("get_last_quality", get_last_quality(doc))

CfgGetDownloadDir == CfgGet("get_download_dir", get_download_dir(doc))

CfgGetLastUsedDir == CfgGet("get_last_used_dir", get_last_used_dir(doc))

\* The user or another program deletes the file, or replaces it by text that
\* is not JSON, or by JSON that is not an object.
ExternalEdit(d) ==
    /\ doc # d
    /\ doc' = d
    /\ call' = [op |-> "external", arg |-> None, out |-> Value(None)]
    /\ UNCHANGED parseVars
    /\ UNCHANGED dlVars
    /\ UNCHANGED sanVars
    /\ UNCHANGED mainVars

ExternalDelete == ExternalEdit(MissingDoc)

ExternalCorrupt == ExternalEdit(CorruptDoc)

ExternalNonMapping == ExternalEdit(NonMapDoc)

CfgNext ==
    \/ CfgSetLastQuality
    \/ CfgSetDownloadDir
    \/ CfgSetLastUsedDir
    \/ CfgGetLastQuality
    \/ CfgGetDownloadDir
    \/ CfgGetLastUsedDir
    \/ ExternalDelete
    \/ ExternalCorrupt
    \/ ExternalNonMapping

SpecConfig == CfgInit /\ [][CfgNext]_vars

\* ------------------------------------ specification of the download calls

\* download_single_video or download_playlist has been called and is about to
\* start the external process.
DlInit ==
    /\ dlMode \in {"single", "playlist"}
    /\ dlPc = "call"
    /\ DlFresh
    /\ ParseIdle
    /\ CfgIdle
    /\ MainIdle
    /\ SanIdle

\* the except clause: the message is printed and the call returns False
DlCaught(exc) ==
    /\ dlExc' = exc
    /\ dlRet' = FALSE
    /\ dlPc' = "returned"

\* subprocess.Popen starts the process (downloader.py:207, 322)
DlSpawn ==
    /\ dlPc = "call"
    /\ proc' = [state |-> "running", code |-> 0]
    /\ dlPc' = "reading"
    /\ task' = NewTask
    /\ UNCHANGED <<dlMode, returncode, all_output, stdoutRead, shown, dlExc, dlRet>>
    /\ UNCHANGED <<parseVars, cfgVars, mainVars, sanVars>>

\* subprocess.Popen raises: the external tool is missing or cannot be started
DlSpawnFails ==
    /\ dlPc = "call"
    /\ DlCaught("FileNotFoundError")
    /\ UNCHANGED <<dlMode, proc, returncode, all_output, stdoutRead, task, shown>>
    /\ UNCHANGED <<parseVars, cfgVars, mainVars, sanVars>>

\* the external process ends, whether or not its output has been read
ProcExits ==
    /\ proc.state = "running"
    /\ \E code \in ExitCodes : proc' = [state |-> "exited", code |-> code]
    /\ UNCHANGED <<dlMode, dlPc, returncode, all_output, stdoutRead, task, shown,
                   dlExc, dlRet>>
    /\ UNCHANGED <<parseVars, cfgVars, mainVars, sanVars>>

\* one turn of `for line in process.stdout`
DlReadLine ==
    /\ dlPc = "reading"
    /\ Len(stdoutRead) < MaxLines
    /\ \E line \in Lines :
          /\ stdoutRead' = Append(stdoutRead, line)
          /\ IF dlMode = "single"
             THEN /\ all_output' = Append(all_output, line)
                  /\ task' = ScanSingle(task, line)
             ELSE /\ all_output' = all_output
                  /\ task' = ScanPlaylist(task, line)
    /\ UNCHANGED <<dlMode, dlPc, proc, returncode, shown, dlExc, dlRet>>
    /\ UNCHANGED <<parseVars, cfgVars, mainVars, sanVars>>

\* download_playlist opens the pipe without errors='replace': a byte sequence
\* that is not UTF-8 makes the iteration raise UnicodeDecodeError, which the
\* except clause catches; the process is neither waited for nor stopped.
DlReadRaises ==
    /\ dlPc = "reading"
    /\ dlMode = "playlist"
    /\ DlCaught("UnicodeDecodeError")
    /\ UNCHANGED <<dlMode, proc, returncode, all_output, stdoutRead, task, shown>>
    /\ UNCHANGED <<parseVars, cfgVars, mainVars, sanVars>>

\* the process closed its output: the for loop ends and process.wait() is called
DlEndOfOutput ==
    /\ dlPc = "reading"
    /\ dlPc' = "waiting"
    /\ UNCHANGED <<dlMode, proc, returncode, all_output, stdoutRead, task, shown,
                   dlExc, dlRet>>
    /\ UNCHANGED <<parseVars, cfgVars, mainVars, sanVars>>

\* process.wait() returns the exit status, and the call returns
\* (downloader.py:243-256, 364-370)
DlWaitReturns ==
    /\ dlPc = "waiting"
    /\ proc.state = "exited"
    /\ returncode' = [known |-> TRUE, code |-> proc.code]
    /\ dlPc' = "returned"
    /\ IF dlMode = "single"
       THEN IF ExitFailed(proc.code)
            THEN /\ shown' = SingleDiagnostics(all_output)
                 /\ dlExc' = "RuntimeError"
                 /\ dlRet' = FALSE
            ELSE /\ dlRet' = TRUE
                 /\ UNCHANGED <<shown, dlExc>>
       ELSE /\ dlRet' = ExitSucceeded(proc.code)
            /\ UNCHANGED <<shown, dlExc>>
    /\ UNCHANGED <<dlMode, proc, all_output, stdoutRead, task>>
    /\ UNCHANGED <<parseVars, cfgVars, mainVars, sanVars>>

DlNext ==
    \/ DlSpawn
    \/ DlSpawnFails
    \/ ProcExits
    \/ DlReadLine
    \/ DlReadRaises
    \/ DlEndOfOutput
    \/ DlWaitReturns

SpecDownload == DlInit /\ [][DlNext]_vars

\* --------------------------------------- specification of the menu loop

\* main has built Config and Downloader on a first run and shows the menu.
Init ==
    /\ doc = FirstRunDoc
    /\ call = NoCall
    /\ pc = "menu"
    /\ wf = NoLocals
    /\ base_dir = get_download_dir(FirstRunDoc).value
    /\ wfResult = NotReturned
    /\ status = NotReturned
    /\ escaped = ""
    /\ extCall = NoExternalCall
    /\ interrupted = FALSE
    /\ ParseIdle
    /\ DlIdle
    /\ SanIdle

\* download_workflow returns code to main: 0 goes back to the menu, anything
\* else to the question "Return to main menu?" (cli.py:154-163)
WorkflowReturns(code) ==
    /\ wfResult' = Returns(code)
    /\ wf' = NoLocals
    /\ pc' = IF code = 0 THEN "menu" ELSE "again"

\* an exception leaves download_workflow: main's `except Exception` prints it
\* and returns 1 (cli.py:179-183)
ExceptionReachesMain(exc) ==
    /\ escaped' = exc
    /\ status' = Returns(1)
    /\ wf' = NoLocals
    /\ pc' = "exited"

\* the answer to prompt_main_menu (prompts.py:60-68, cli.py:151-174)
MenuAnswer ==
    /\ pc = "menu"
    /\ \E answer \in {"Download video/playlist", "Change settings", "Exit", "None"} :
          LET choice == IF answer = "None" THEN "Exit" ELSE answer
          IN  /\ CASE choice = "Download video/playlist" ->
                     /\ pc' = "url"
                     /\ UNCHANGED status
                [] choice = "Change settings" ->
                     /\ pc' = "settings"
                     /\ UNCHANGED status
                [] OTHER ->
                     /\ pc' = "exited"
                     /\ status' = Returns(0)
              /\ interrupted' = (interrupted \/ answer = "None")
    /\ extCall' = NoExternalCall
    /\ UNCHANGED <<wf, base_dir, wfResult, escaped>>
    /\ UNCHANGED <<parseVars, cfgVars, dlVars, sanVars>>

\* the answer to prompt_url and the checks on it (cli.py:38-50)
UrlAnswer ==
    /\ pc = "url"
    /\ \E answer \in Urls :
          LET url == prompt_url(answer)
          IN  /\ IF url = <<>> \/ ~IsYouTubeUrl(url)
                 THEN WorkflowReturns(1)
                 ELSE /\ wf' = [wf EXCEPT
                                   !.default_dir = get_download_dir(doc).value]
                      /\ pc' = "dir"
                      /\ UNCHANGED wfResult
              /\ interrupted' = (interrupted \/ answer = None)
    /\ UNCHANGED <<base_dir, status, escaped, extCall>>
    /\ UNCHANGED <<parseVars, cfgVars, dlVars, sanVars>>

\* the directory prompt was left with Ctrl-C: ask() returned None at the menu
\* or at the path (prompts.py:345-348, 363-367)
DirCancelled(answer) ==
    answer.choice = "None" \/ (answer.choice = "Custom" /\ answer.path = None)

\* the answer to prompt_download_directory in the workflow (cli.py:51-58)
DirAnswer ==
    /\ pc = "dir"
    /\ \E answer \in DirAnswers :
          LET last_used    == get_last_used_dir(doc).value
              download_dir == prompt_download_directory(wf.default_dir, last_used,
                                                        answer)
          IN  /\ answer.choice = "Previous" => last_used # None
              /\ doc' = IF download_dir # wf.default_dir
                        THEN set_last_used_dir(doc, download_dir).doc
                        ELSE doc
              /\ base_dir' = PathStr(download_dir)
              /\ interrupted' = (interrupted \/ DirCancelled(answer))
    /\ pc' = "meta"
    /\ UNCHANGED <<call, wf, wfResult, status, escaped, extCall>>
    /\ UNCHANGED <<parseVars, dlVars, sanVars>>

\* the metadata call ends (cli.py:61-71)
MetaDone ==
    /\ pc = "meta"
    /\ \E run \in MetaRuns :
          LET info == fetch_metadata(run)
          IN  /\ extCall' = [name |-> "metadata", failed |-> info.exc # ""]
              /\ CASE info.exc = "RuntimeError" ->
                        /\ WorkflowReturns(1)
                        /\ UNCHANGED <<status, escaped>>
                   [] info.exc \notin {"", "RuntimeError"} ->
                        /\ ExceptionReachesMain(info.exc)
                        /\ UNCHANGED wfResult
                   [] OTHER ->
                        /\ wf' = [wf EXCEPT
                                    !.is_playlist = is_playlist(info),
                                    !.entries = info.entries,
                                    !.last_quality =
                                        LabelFor(get_last_quality(doc).value)]
                        /\ pc' = IF is_playlist(info) THEN "folder" ELSE "quality"
                        /\ UNCHANGED <<wfResult, status, escaped>>
    /\ UNCHANGED <<base_dir, interrupted>>
    /\ UNCHANGED <<parseVars, cfgVars, dlVars, sanVars>>

\* the answer to prompt_playlist_folder_name (cli.py:81)
FolderAnswer ==
    /\ pc = "folder"
    /\ \E choice \in {"Use playlist name", "Enter custom folder name", "None"} :
          /\ wf' = [wf EXCEPT !.folder_name =
                                  IF choice = "Enter custom folder name"
                                  THEN "custom" ELSE "detected"]
          /\ interrupted' = (interrupted \/ choice = "None")
    /\ pc' = "select"
    /\ UNCHANGED <<base_dir, wfResult, status, escaped, extCall>>
    /\ UNCHANGED <<parseVars, cfgVars, dlVars, sanVars>>

\* a buggy variant: an empty selection is not turned away
SelectedEvenIfEmpty(video_indices) ==
    /\ wf' = [wf EXCEPT !.video_indices = video_indices]
    /\ pc' = "quality"
    /\ UNCHANGED wfResult

\* download_workflow goes on with the selected videos (cli.py:84-88)
Selected(video_indices) ==
    IF video_indices = <<>>
    THEN WorkflowReturns(1)
    ELSE /\ wf' = [wf EXCEPT !.video_indices = video_indices]
         /\ pc' = "quality"
         /\ UNCHANGED wfResult

\* the answer to prompt_video_selection's first question (prompts.py:207-219)
SelectAnswer ==
    /\ pc = "select"
    /\ \E choice \in {"All videos", "Select specific videos", "None"} :
          /\ IF choice = "Select specific videos"
             THEN /\ pc' = "select_text"
                  /\ UNCHANGED <<wf, wfResult>>
             ELSE Selected([i \in 1..wf.entries |-> i])
          /\ interrupted' = (interrupted \/ choice = "None")
    /\ UNCHANGED <<base_dir, status, escaped, extCall>>
    /\ UNCHANGED <<parseVars, cfgVars, dlVars, sanVars>>

\* the texts typed at "Enter your selection:" in the menu loop: "all", a
\* position, a range, a position past any playlist, a word and a blank
SelectionAnswers ==
    { <<[kind |-> "all", a |-> 5, b |-> 3]>>,
      <<[kind |-> "num", a |-> 1, b |-> 0]>>,
      <<[kind |-> "num", a |-> 2, b |-> 0], [kind |-> "num", a |-> 1, b |-> 0]>>,
      <<[kind |-> "range", a |-> 1, b |-> 2]>>,
      <<[kind |-> "num", a |-> MaxMetaLines + 1, b |-> 0]>>,
      <<[kind |-> "raw", a |-> 4, b |-> 0]>>,
      <<[kind |-> "raw", a |-> 11, b |-> 0]>> }

\* prompt_video_selection returns: its selection text is gone
SelectionForgotten ==
    /\ typed' = <<>>
    /\ selection' = <<>>
    /\ total_videos' = 0
    /\ parsed' = NotCalled

\* the answer to "Enter your selection:" (prompts.py:231-246): a prompt left
\* with Ctrl-C gives up; a text passes the prompt's validation when it is not
\* empty, is stripped and handed to the parser, and is asked for again when
\* the parser raises
SelectText ==
    /\ pc = "select_text"
    /\ \/ /\ Selected(<<>>)
          /\ SelectionForgotten
          /\ interrupted' = TRUE
       \/ \E ts \in SelectionAnswers :
             LET text == SelectionText(ts)
                 r    == parse_video_selection(Strip(text), wf.entries)
             IN  /\ Len(text) > 0
                 /\ IF r.kind = "ok"
                    THEN /\ Selected(r.value)
                         /\ SelectionForgotten
                    ELSE /\ typed' = ts
                         /\ selection' = Strip(text)
                         /\ total_videos' = wf.entries
                         /\ parsed' = r
                         /\ UNCHANGED <<wf, wfResult, pc>>
                 /\ UNCHANGED interrupted
    /\ UNCHANGED <<base_dir, status, escaped, extCall>>
    /\ UNCHANGED <<cfgVars, dlVars, sanVars>>

\* the answer to prompt_quality (cli.py:91, 121)
QualityAnswer ==
    /\ pc = "quality"
    /\ \E answer \in QualityChoices \cup {None} :
          /\ wf' = [wf EXCEPT !.quality = prompt_quality(wf.last_quality, answer)]
          /\ interrupted' = (interrupted \/ answer = None)
    /\ pc' = "confirm"
    /\ UNCHANGED <<base_dir, wfResult, status, escaped, extCall>>
    /\ UNCHANGED <<parseVars, cfgVars, dlVars, sanVars>>

\* what questionary.confirm(...).ask() gives: yes, no, or None after Ctrl-C
ConfirmAnswers == {"yes", "no", "None"}

\* a buggy variant: the quality is saved before the confirmation is asked for
ConfirmAnswerSavesFirst ==
    /\ pc = "confirm"
    /\ \E answer \in ConfirmAnswers :
          /\ doc' = set_last_quality(doc, SavedByWorkflow(wf.quality)).doc
          /\ IF answer = "yes"
             THEN /\ wf' = [wf EXCEPT !.format_str = format_str(wf.quality)]
                  /\ pc' = "download"
                  /\ UNCHANGED wfResult
             ELSE WorkflowReturns(0)
          /\ interrupted' = (interrupted \/ answer = "None")
    /\ UNCHANGED <<call, base_dir, status, escaped, extCall>>
    /\ UNCHANGED <<parseVars, dlVars, sanVars>>

\* the answer to confirm_download; a confirmed download saves the quality and
\* starts the download call (cli.py:94-107, 124-132)
ConfirmAnswer ==
    /\ pc = "confirm"
    /\ \E answer \in ConfirmAnswers :
          /\ IF answer = "yes"
             THEN /\ doc' = set_last_quality(doc, SavedByWorkflow(wf.quality)).doc
                  /\ wf' = [wf EXCEPT !.format_str = format_str(wf.quality)]
                  /\ pc' = "download"
                  /\ UNCHANGED wfResult
             ELSE /\ WorkflowReturns(0)
                  /\ UNCHANGED doc
          /\ interrupted' = (interrupted \/ answer = "None")
    /\ UNCHANGED <<call, base_dir, status, escaped, extCall>>
    /\ UNCHANGED <<parseVars, dlVars, sanVars>>

\* download_playlist or download_single_video returns (cli.py:102-114, 132-139)
DownloadDone ==
    /\ pc = "download"
    /\ \E run \in DownloadRuns :
          LET mode    == IF wf.is_playlist THEN "playlist" ELSE "single"
              success == download_returns(mode, run)
          IN  /\ run.raised => mode = "playlist"
              /\ extCall' = [name |-> "download", failed |-> ~success]
              /\ WorkflowReturns(IF success THEN 0 ELSE 1)
    /\ UNCHANGED <<base_dir, status, escaped, interrupted>>
    /\ UNCHANGED <<parseVars, cfgVars, dlVars, sanVars>>

\* the answer to "Return to main menu?" (cli.py:159-163)
AgainAnswer ==
    /\ pc = "again"
    /\ \E answer \in ConfirmAnswers :
          /\ IF answer = "yes"
             THEN /\ pc' = "menu"
                  /\ UNCHANGED status
             ELSE /\ pc' = "exited"
                  /\ status' = Returns(wfResult.code)
          /\ interrupted' = (interrupted \/ answer = "None")
    /\ extCall' = NoExternalCall
    /\ UNCHANGED <<wf, base_dir, wfResult, escaped>>
    /\ UNCHANGED <<parseVars, cfgVars, dlVars, sanVars>>

\* prompt_settings_menu: "Back to main menu", or the prompt cancelled
\* (prompts.py:421-422)
SettingsBack ==
    /\ pc = "settings"
    /\ \E answer \in {"Back to main menu", "None"} :
          interrupted' = (interrupted \/ answer = "None")
    /\ pc' = "menu"
    /\ UNCHANGED <<wf, base_dir, wfResult, status, escaped, extCall>>
    /\ UNCHANGED <<parseVars, cfgVars, dlVars, sanVars>>

\* prompt_settings_menu: "Default Quality" (prompts.py:400-403, 424-430)
SettingsQuality ==
    /\ pc = "settings"
    /\ \E answer \in QualityChoices \cup {None} :
          LET current_quality == LabelFor(get_last_quality(doc).value)
              new_quality     == prompt_quality(current_quality, answer)
          IN  /\ doc' = set_last_quality(doc, SavedBySettings(new_quality)).doc
              /\ interrupted' = (interrupted \/ answer = None)
    /\ UNCHANGED call
    /\ UNCHANGED <<pc, wf, base_dir, wfResult, status, escaped, extCall>>
    /\ UNCHANGED <<parseVars, dlVars, sanVars>>

\* prompt_settings_menu: "Download Directory" (prompts.py:404, 432-437)
SettingsDirectory ==
    /\ pc = "settings"
    /\ \E answer \in DirAnswers :
          LET current_dir == get_download_dir(doc).value
              last_used   == get_last_used_dir(doc).value
              new_dir     == prompt_download_directory(current_dir, last_used, answer)
          IN  /\ answer.choice = "Previous" => last_used # None
              /\ doc' = IF new_dir # current_dir
                        THEN set_download_dir(doc, new_dir).doc
                        ELSE doc
              /\ interrupted' = (interrupted \/ DirCancelled(answer))
    /\ UNCHANGED call
    /\ UNCHANGED <<pc, wf, base_dir, wfResult, status, escaped, extCall>>
    /\ UNCHANGED <<parseVars, dlVars, sanVars>>

\* prompt_settings_menu: "Reset to defaults", confirmed or not
\* (prompts.py:439-449)
SettingsReset ==
    /\ pc = "settings"
    /\ \E answer \in ConfirmAnswers :
          /\ doc' = IF answer = "yes"
                    THEN set_download_dir(
                             set_last_quality(doc, <<"7", "2", "0">>).doc,
                             base_download_dir).doc
                    ELSE doc
          /\ interrupted' = (interrupted \/ answer = "None")
    /\ UNCHANGED call
    /\ UNCHANGED <<pc, wf, base_dir, wfResult, status, escaped, extCall>>
    /\ UNCHANGED <<parseVars, dlVars, sanVars>>

\* Ctrl-C while no prompt is waiting (the banner or a panel is being printed,
\* the metadata call runs, download output is read): KeyboardInterrupt is not
\* an Exception, passes every handler below main and main returns 130
\* (cli.py:176-178)
Interrupt ==
    /\ pc \notin {"off", "exited"}
    /\ interrupted' = TRUE
    /\ escaped' = "KeyboardInterrupt"
    /\ status' = Returns(130)
    /\ pc' = "exited"
    /\ wf' = NoLocals
    /\ extCall' = NoExternalCall
    /\ SelectionForgotten
    /\ UNCHANGED <<base_dir, wfResult>>
    /\ UNCHANGED <<cfgVars, dlVars, sanVars>>

Next ==
    \/ MenuAnswer
    \/ UrlAnswer
    \/ DirAnswer
    \/ MetaDone
    \/ FolderAnswer
    \/ SelectAnswer
    \/ SelectText
    \/ QualityAnswer
    \/ ConfirmAnswer
    \/ DownloadDone
    \/ AgainAnswer
    \/ SettingsBack
    \/ SettingsQuality
    \/ SettingsDirectory
    \/ SettingsReset
    \/ Interrupt

Spec == Init /\ [][Next]_vars

\* ------------------------------------- specification of sanitize_filename

SanInit ==
    /\ filename \in FileNames
    /\ sanitized = [called |-> FALSE, value |-> <<>>]
    /\ ParseIdle
    /\ CfgIdle
    /\ DlIdle
    /\ MainIdle

SanCall ==
    /\ ~sanitized.called
    /\ sanitized' = [called |-> TRUE, value |-> sanitize_filename(filename)]
    /\ UNCHANGED filename
    /\ UNCHANGED <<parseVars, cfgVars, dlVars, mainVars>>

SanNext == SanCall

SpecSanitize == SanInit /\ [][SanNext]_vars

\* ------------------------------------------------- claims on the parser

\* C1: whenever parse_video_selection returns (does not raise), the result is
\* strictly ascending, hence free of duplicates, and every position p in it
\* satisfies 1 <= p <= total_videos.
C1_SelectionAscendingInRange ==
    parsed.kind = "ok" =>
        /\ \A i \in 1..Len(parsed.value) :
               1 <= parsed.value[i] /\ parsed.value[i] <= total_videos
        /\ \A i, j \in 1..Len(parsed.value) :
               i < j => parsed.value[i] < parsed.value[j]

\* two different terms that overlap were parsed into a list of two positions
C1_Witness ==
    /\ parsed.kind = "ok"
    /\ Len(typed) = 2
    /\ typed[1] # typed[2]
    /\ typed[1].kind = "range"
    /\ Len(parsed.value) = 2

\* The three kinds of failure the parser can meet in a term.
FailureKind(cause) ==
    CASE cause = "Index out of range" -> "OutOfRange"
      [] cause = "Invalid range" -> "InvalidRange"
      [] OTHER -> "InvalidFormat"

\* C2: an out-of-range number fails with an OutOfRange error, a range that
\* violates start >= 1, end <= N or start <= end with an InvalidRange error, a
\* non-numeric token with an InvalidFormat error, and the error reported to
\* the caller distinguishes the three kinds: no two one-term selections that
\* fail for different kinds of reason are reported with the same message.
C2_ErrorKindsDistinguished ==
    parsed.kind = "error" =>
        \A t \in Terms :
            LET other == parse_video_selection(TermText(t), total_videos)
            IN  (other.kind = "error"
                   /\ FailureKind(other.cause) # FailureKind(parsed.cause))
                => other.msg # parsed.msg

\* The positions a well-formed term means; {} for a malformed one.
RawMeaning ==
    << {}, {}, {}, {}, {2}, {}, {}, {1, 2}, {2}, {}, {} >>

Denotes(t) ==
    CASE t.kind = "num" -> {t.a}
      [] t.kind = "range" -> t.a..t.b
      [] t.kind = "all" -> {}
      [] OTHER -> RawMeaning[t.a]

InRangeTerm(t, n) ==
    /\ Denotes(t) # {}
    /\ \A p \in Denotes(t) : 1 <= p /\ p <= n

TermOrders(n) ==
    {f \in [1..n -> 1..n] : \A i, j \in 1..n : f[i] = f[j] => i = j}

\* C10: for in-range terms the result is the sorted union of the positions the
\* terms denote, and every permutation of the terms parses to the same result.
C10_SortedUnionAnyOrder ==
    (parsed.kind # "none"
       /\ \A i \in 1..Len(typed) : InRangeTerm(typed[i], total_videos))
    => /\ parsed.kind = "ok"
       /\ {parsed.value[i] : i \in 1..Len(parsed.value)}
              = UNION {Denotes(typed[i]) : i \in 1..Len(typed)}
       /\ \A i, j \in 1..Len(parsed.value) :
              i < j => parsed.value[i] < parsed.value[j]
       /\ \A f \in TermOrders(Len(typed)) :
              parse_video_selection(
                  SelectionText([i \in 1..Len(typed) |-> typed[f[i]]]),
                  total_videos) = parsed

\* a number and a range that contains it, both in range, were parsed
C10_Witness ==
    /\ parsed.kind = "ok"
    /\ Len(typed) = 2
    /\ typed[1].kind = "num"
    /\ typed[2].kind = "range"
    /\ typed[1].a \in Denotes(typed[2])
    /\ typed[2].a < typed[2].b
    /\ \A i \in 1..2 : InRangeTerm(typed[i], total_videos)

\* the word "all" in any casing, with whitespace around it or not
IsAllToken(text) ==
    \E i, j \in 0..Len(text) :
        /\ i + 3 + j = Len(text)
        /\ \A k \in 1..i : text[k] \in {" ", "\t", "\n"}
        /\ \A k \in (i + 4)..Len(text) : text[k] \in {" ", "\t", "\n"}
        /\ text[i + 1] \in {"a", "A"}
        /\ text[i + 2] \in {"l", "L"}
        /\ text[i + 3] \in {"l", "L"}

\* C11: for every playlist length N >= 0 and every casing of the word "all",
\* with or without whitespace around it, parse_video_selection returns
\* exactly <<1, ..., N>>, which is the empty sequence for N = 0.
C11_AllSelectsEveryPosition ==
    (parsed.kind # "none" /\ IsAllToken(selection))
        => parsed = Returned([i \in 1..total_videos |-> i])

\* "all" with a capital and whitespace around it was parsed for an empty playlist
C11_Witness ==
    /\ parsed.kind = "ok"
    /\ IsAllToken(selection)
    /\ Len(selection) > 3
    /\ \E k \in 1..Len(selection) : selection[k] \in {"A", "L"}
    /\ total_videos = 0
    /\ parsed.value = <<>>

\* ------------------------------------------------ claims on the Config store

Setters == {"set_last_quality", "set_download_dir", "set_last_used_dir"}

Getters == {"get_last_quality", "get_download_dir", "get_last_used_dir"}

\* the getter paired with a setter, read fresh from the document
FreshGet(op, d) ==
    CASE op = "set_last_quality" -> get_last_quality(d)
      [] op = "set_download_dir" -> get_download_dir(d)
      [] OTHER -> get_last_used_dir(d)

\* C8, as stated: for each of the three accessor pairs and every value v, after
\* set_X(v) a fresh get_X() returns v.
C8_GetReturnsWhatWasSet ==
    (call.op \in Setters /\ ~call.out.raised)
    => FreshGet(call.op, doc) = Value(call.arg)

\* C8, amended: after set_last_quality(v) get_last_quality() returns v; after
\* set_download_dir(v) get_download_dir() returns Path(v), whose text is v in
\* normal form; after set_last_used_dir(v) get_last_used_dir() returns v when
\* v is non-empty and differs from str(get_download_dir()), and None otherwise.
C8_GetReturnsWhatWasSetAmended ==
    (call.op \in Setters /\ ~call.out.raised)
    => FreshGet(call.op, doc) =
           CASE call.op = "set_last_quality" -> Value(call.arg)
             [] call.op = "set_download_dir" -> Value(PathStr(call.arg))
             [] OTHER ->
                  IF call.arg = <<>> \/ call.arg = get_download_dir(doc).value
                  THEN Value(None)
                  ELSE Value(call.arg)

\* set_last_used_dir stored a directory other than the download directory in
\* a document that held another download directory than the default
C8_Witness ==
    /\ call.op = "set_last_used_dir"
    /\ ~call.out.raised
    /\ call.arg # <<>>
    /\ doc.download_dir \notin {None, base_download_dir}
    /\ get_last_used_dir(doc) = Value(call.arg)

DefaultOf(op) ==
    CASE op = "get_last_quality" -> <<"7", "2", "0">>
      [] op = "get_download_dir" -> PathStr(base_download_dir)
      [] OTHER -> None

\* C9: whatever the state of the backing document (missing, corrupt JSON, or
\* JSON that is not a mapping), every getter returns its field's hard-coded
\* default and never raises.
C9_GettersFallBackToDefaults ==
    (call.op \in Getters /\ doc.kind # "map")
    => call.out = Value(DefaultOf(call.op))

\* a getter by its name, read fresh from the document
GetBy(getter, d) ==
    CASE getter = "get_last_quality" -> get_last_quality(d)
      [] getter = "get_download_dir" -> get_download_dir(d)
      [] OTHER -> get_last_used_dir(d)

\* the getter of the key a mutator writes
OwnGetter(setter) ==
    CASE setter = "set_last_quality" -> "get_last_quality"
      [] setter = "set_download_dir" -> "get_download_dir"
      [] OTHER -> "get_last_used_dir"

\* C22, as stated: on a readable document each mutator changes only its own
\* key: what the getters of the other two keys return afterwards is what they
\* returned before the call.
C22_MutatorChangesOnlyOwnKey ==
    [][(call'.op \in Setters /\ doc.kind = "map")
       => \A g \in Getters \ {OwnGetter(call'.op)} :
              GetBy(g, doc') = GetBy(g, doc)]_vars

\* C22, amended: on a readable document each mutator leaves the other two
\* keys of the document as they were, and get_last_quality and
\* get_download_dir return for them what they returned before.
\* get_last_used_dir returns the same after set_last_quality, and after
\* set_download_dir unless the stored last used directory is the download
\* directory before or after the call: it answers None while the two are equal.
C22_MutatorChangesOnlyOwnKeyAmended ==
    [][(call'.op \in Setters /\ doc.kind = "map")
       => /\ doc'.kind = "map"
          /\ call'.op # "set_last_quality"
                => /\ doc'.last_quality = doc.last_quality
                   /\ get_last_quality(doc') = get_last_quality(doc)
          /\ call'.op # "set_download_dir"
                => /\ doc'.download_dir = doc.download_dir
                   /\ get_download_dir(doc') = get_download_dir(doc)
          /\ call'.op # "set_last_used_dir"
                => /\ doc'.last_used_dir = doc.last_used_dir
                   /\ (call'.op = "set_last_quality"
                         \/ doc.last_used_dir \notin
                                {get_download_dir(doc).value,
                                 get_download_dir(doc').value})
                        => get_last_used_dir(doc') = get_last_used_dir(doc)]_vars

\* set_download_dir was called on a document that holds a quality and a last
\* used directory, and the last used directory is still read back
C22_Witness ==
    /\ call.op = "set_download_dir"
    /\ ~call.out.raised
    /\ doc.kind = "map"
    /\ doc.last_quality = <<"1", "0", "8", "0">>
    /\ doc.last_used_dir = <<"/", "d">>
    /\ get_last_used_dir(doc) = Value(<<"/", "d">>)

\* --------------------------------------------- claims on the download calls

\* C5: download_single_video and download_playlist return True if and only if
\* the external download process exited with status 0; every other exit
\* status, and every failure to start it, returns False.
C5_TrueIffExitedZero ==
    dlPc = "returned" =>
        (dlRet <=> (proc.state = "exited" /\ proc.code = 0))

\* What does hold of both calls: the call returns True if and only if the
\* output was read to its end without an exception and process.wait() then
\* returned 0, and the status wait() returned is the process's exit status.
DlReturnFollowsWait ==
    dlPc = "returned" =>
        /\ dlRet <=> (returncode.known /\ returncode.code = 0)
        /\ returncode.known =>
               (proc.state = "exited" /\ proc.code = returncode.code)
        /\ returncode.known <=> dlExc \in {"", "RuntimeError"}
        /\ dlExc = "RuntimeError" => returncode.code # 0

\* the diagnostic lines the specification asks for: the lines mentioning an
\* error in any letter case if there are any, else the last ten lines
ChosenDiagnostics(lines) ==
    LET matching == SelectSeq(lines, IsErrorLine)
        chosen   == IF matching = <<>> THEN LastN(lines, 10) ELSE matching
    IN  [i \in 1..Len(chosen) |-> Strip(chosen[i])]

\* C6: when a download process exits with a non-zero status, in single-video
\* mode and in playlist mode alike, the failure is surfaced with the lines of
\* the output that contain "error" (case-insensitive) if any exist, otherwise
\* with the last ten lines.
C6_FailureShowsDiagnostics ==
    (dlPc = "returned" /\ returncode.known /\ returncode.code # 0)
    => shown = ChosenDiagnostics(stdoutRead)

\* C7: after any sequence of output lines, the percentage handed to the
\* progress display lies within 0.0 to 100.0 inclusive.
C7_PercentWithinBounds ==
    /\ 0 <= task.completed.n
    /\ task.completed.n <= 100 * task.completed.d


\* the line read last
LastLine == stdoutRead[Len(stdoutRead)]

\* a destination-file announcement
AnnouncesDestination(line) ==
    \E i \in 1..Len(line) : line[i] = "Destination:"

\* the announced file's base name: what follows the last "/" after
\* "Destination:", without surrounding blanks
AnnouncedBaseName(line) ==
    LET i    == CHOOSE k \in 1..Len(line) : line[k] = "Destination:"
        path == Strip(SubSeq(line, i + 1, Len(line)))
        cut  == IF \E k \in 1..Len(path) : path[k] = "/"
                THEN CHOOSE k \in 1..Len(path) :
                         path[k] = "/" /\ \A l \in (k + 1)..Len(path) : path[l] # "/"
                ELSE 0
    IN  SubSeq(path, cut + 1, Len(path))

\* C14: a line containing a destination-file announcement sets the display
\* name to the file's base name, shortened to at most 40 characters ending in
\* an ellipsis when the base name is longer than 40, and resets the percentage
\* to 0. The code does so in download_playlist only.
C14_DestinationSetsNameAndResets ==
    (dlPc = "reading" /\ stdoutRead # <<>> /\ AnnouncesDestination(LastLine))
    => LET name == AnnouncedBaseName(LastLine)
           desc == task.description
       IN  /\ task.completed = Number(0, 1)
           /\ Len(name) <= 40 => desc = name
           /\ Len(name) > 40 =>
                  /\ Len(desc) <= 40
                  /\ SubSeq(desc, Len(desc) - 2, Len(desc)) = <<".", ".", ".">>
                  /\ SubSeq(desc, 1, Len(desc) - 3)
                         = SubSeq(name, 1, Len(desc) - 3)

\* What does hold: C14 of download_playlist.
DestinationSetsNameInPlaylist ==
    dlMode = "playlist" => C14_DestinationSetsNameAndResets

\* C15: in every download, single-video and playlist, a line saying the item
\* "has already been downloaded", or a line carrying "100%", forces the
\* displayed percentage to 100, whatever the previous value and whatever else
\* the line contains. The code has no such branch in download_single_video,
\* and in download_playlist it comes after the two other branches.
C15_CompletionForcesHundred ==
    (dlPc = "reading" /\ stdoutRead # <<>>
       /\ \/ \E i \in 1..Len(LastLine) : LastLine[i] = "has already been downloaded"
          \/ \E i \in 1..(Len(LastLine) - 3) :
                 SubSeq(LastLine, i, i + 3) = <<"1", "0", "0", "%">>)
    => task.completed = Number(100, 1)


\* the text in front of the first "%" of a line, up to the blank before it
PercentToken(line) ==
    LET i == CHOOSE k \in 1..Len(line) :
                 line[k] = "%" /\ \A l \in 1..(k - 1) : line[l] # "%"
        j == IF \E k \in 1..(i - 1) : line[k] \in {" ", "\t"}
             THEN CHOOSE k \in 1..(i - 1) :
                      /\ line[k] \in {" ", "\t"}
                      /\ \A l \in (k + 1)..(i - 1) : line[l] \notin {" ", "\t"}
             ELSE 0
    IN  SubSeq(line, j + 1, i - 1)

\* a decimal number: digits, with at most one point among them
IsDecimal(token) ==
    /\ \E k \in 1..Len(token) : IsDigit(token[k])
    /\ \A k \in 1..Len(token) : IsDigit(token[k]) \/ token[k] = "."
    /\ Cardinality({k \in 1..Len(token) : token[k] = "."}) <= 1

\* a download-progress line whose percentage token is not a number
UnparseableProgress(line) ==
    /\ \E k \in 1..Len(line) : line[k] = "[download]"
    /\ \E k \in 1..Len(line) : line[k] = "%"
    /\ ~AnnouncesDestination(line)
    /\ ~IsDecimal(PercentToken(line))

\* C18: when a download-progress line's percentage token cannot be parsed as
\* a number, reading the line raises nothing, leaves the displayed percentage
\* and the display name as they were, and the loop goes on reading.
C18_UnparseablePercentIgnored ==
    [][(Len(stdoutRead') = Len(stdoutRead) + 1
          /\ UnparseableProgress(stdoutRead'[Len(stdoutRead')]))
       => (task' = task /\ dlExc' = dlExc /\ dlPc' = "reading")]_vars

\* a percentage was shown, then a progress line without a number was read
C18_Witness ==
    /\ dlPc = "reading"
    /\ Len(stdoutRead) = 2
    /\ UnparseableProgress(LastLine)
    /\ task.completed = Number(573, 10)


\* C16: once a download process is spawned, the call does not return to the
\* workflow until the process's output has been read to the end and the
\* process has exited, on every path including the one where reading its
\* output raises. The code does not keep it on that path: download_playlist's
\* except clause returns without waiting for the process or stopping it.
C16_ReturnsOnlyAfterProcessExit ==
    (dlPc = "returned" /\ proc.state # "none")
    => (proc.state = "exited" /\ returncode.known)

\* ---------------------------------------------- claims on the menu loop

\* the eight resolutions as string numerals
ResolutionNumerals ==
    { <<"2", "1", "6", "0">>, <<"1", "4", "4", "0">>, <<"1", "0", "8", "0">>,
      <<"7", "2", "0">>, <<"4", "8", "0">>, <<"3", "6", "0">>,
      <<"2", "4", "0">>, <<"1", "4", "4">> }

\* C3: after any sequence of settings changes, resets and workflows the
\* persisted last_quality is a digits-only numeral, one of the eight
\* resolutions. The code does not keep it: a confirmed workflow stores the
\* label with only its letters p removed.
C3_LastQualityIsNumeral ==
    pc # "off" => doc.last_quality \in ResolutionNumerals

\* C4: when the metadata or download call has failed, download_workflow has
\* returned a non-zero result, main asks "Return to main menu?" and no
\* exception has reached main's handlers. The code does not keep it: a failure
\* to launch the metadata call, or output it cannot decode, ends main.
C4_FailureReturnsToMenuLoop ==
    extCall.failed =>
        /\ pc = "again"
        /\ wfResult.returned
        /\ wfResult.code # 0
        /\ escaped = ""
        /\ ~status.returned

\* the digits a quality label starts with
RECURSIVE LeadingDigits(_)
LeadingDigits(text) ==
    IF text # <<>> /\ IsDigit(Head(text))
    THEN <<Head(text)>> \o LeadingDigits(Tail(text))
    ELSE <<>>

\* the height a tier is bounded by: the digits between "[height<=" and "]";
\* <<"unbounded">> for a tier without a bound
TierBound(tier) ==
    IF \E i \in 1..Len(tier) : tier[i] = "[height<="
    THEN LET i    == CHOOSE k \in 1..Len(tier) : tier[k] = "[height<="
             rest == SubSeq(tier, i + 1, Len(tier))
             j    == CHOOSE k \in 1..(Len(rest) + 1) :
                         /\ k = Len(rest) + 1 \/ rest[k] = "]"
                         /\ \A l \in 1..(k - 1) : rest[l] # "]"
         IN  SubSeq(rest, 1, j - 1)
    ELSE <<"unbounded">>

\* C12: for each of the eight quality labels build_format_string(label) equals
\* build_format_string(its bare numeral), and the selector handed to yt-dlp
\* consists of four tiers, each bounded by height <= that numeral, followed by
\* the unconditional tier "best".
C12_FormatChainBoundedByNumeral ==
    pc = "download" =>
        LET numeral == LeadingDigits(wf.quality)
            tiers   == SplitOn(wf.format_str, "/")
        IN  /\ numeral \in ResolutionNumerals
            /\ build_format_string(wf.quality) = build_format_string(numeral)
            /\ ~build_format_string(wf.quality).raised
            /\ wf.format_str = build_format_string(numeral).value
            /\ Len(tiers) = 5
            /\ \A i \in 1..4 : TierBound(tiers[i]) = numeral
            /\ tiers[5] = <<"best">>

\* a download was started for a label that has a suffix after the numeral
C12_Witness ==
    /\ pc = "download"
    /\ wf.quality = <<"1", "0", "8", "0", "p", " ", "(", "F", "H", "D", ")">>
    /\ Len(SplitOn(wf.format_str, "/")) = 5

\* C13: once the user has pressed Ctrl-C, at a prompt or during a call, main
\* returns the cancelled status 130, never 0 and never 1; an exception other
\* than the interrupt that reaches main makes it return 1. The code does not
\* keep the first part: questionary's ask() answers Ctrl-C with None, which
\* the prompts take for "Exit", "no" or the default.
C13_InterruptReturnsCancelled ==
    /\ (status.returned /\ interrupted) => status.code = 130
    /\ (status.returned /\ escaped \notin {"", "KeyboardInterrupt"})
           => status.code = 1

\* C17: a selection text that is empty after trimming is turned away by
\* prompt_video_selection before parse_video_selection is called: the parser
\* is never handed such a text. The code does not keep it: the prompt accepts
\* any text of length > 0, strips it and hands the result to the parser.
C17_ParserNeverHandedEmptyText ==
    (pc # "off" /\ parsed.kind # "none") => Strip(selection) # <<>>

\* C19: for each of the eight quality choices, the label derived from the
\* stored numeral (the first choice that starts with it) is the choice the
\* numeral was stored for. The code does not keep it for 144p: "1440p (2K)"
\* starts with "144" and comes first.
C19_LabelOfStoredNumeral ==
    (pc # "off" /\ doc.last_quality \in ResolutionNumerals)
    => LeadingDigits(LabelFor(get_last_quality(doc).value)) = doc.last_quality

\* C20: download_playlist is only called with a non-empty list of indices,
\* each within 1 .. the number of playlist entries; a playlist without entries
\* or an abandoned selection ends the workflow with result 1 before the
\* quality is asked for and any download is started.
C20_PlaylistIndicesNonEmptyInRange ==
    /\ [](( pc \in {"quality", "confirm", "download"} /\ wf.is_playlist)
            => /\ wf.video_indices # <<>>
               /\ \A i \in 1..Len(wf.video_indices) :
                      wf.video_indices[i] \in 1..wf.entries)
    /\ [][(pc \in {"select", "select_text"}
             /\ pc' \notin {"select", "select_text", "quality", "exited"})
          => (pc' = "again" /\ wfResult' = Returns(1))]_vars

\* a playlist download was started for two typed positions
C20_Witness ==
    /\ pc = "download"
    /\ wf.is_playlist
    /\ wf.entries = 3
    /\ wf.video_indices = <<1, 2>>

\* where download_workflow can be
WorkflowPcs ==
    {"url", "dir", "meta", "folder", "select", "select_text", "quality",
     "confirm", "download"}

\* C21: when the user declines the confirmation, download_workflow returns 0
\* without starting the download call and the persisted last_quality is what
\* it was; within the workflow last_quality is written only on the step from
\* the confirmation to the download call.
C21_DeclineLeavesQualityUnsaved ==
    [][/\ (pc = "confirm" /\ pc' \notin {"download", "exited"})
            => /\ pc' = "menu"
               /\ wfResult' = Returns(0)
               /\ extCall' = extCall
               /\ extCall.name # "download"
               /\ doc'.last_quality = doc.last_quality
       /\ (pc \in WorkflowPcs /\ doc'.last_quality # doc.last_quality)
            => (pc = "confirm" /\ pc' = "download")]_vars

\* a download into another directory was declined: the workflow is back at
\* the menu with result 0, the directory saved and the first run's quality kept
C21_Witness ==
    /\ pc = "menu"
    /\ wfResult = Returns(0)
    /\ extCall.name = "metadata"
    /\ doc.last_quality = FirstRunDoc.last_quality
    /\ doc.last_used_dir # None

\* ---------------------------------------------- claims on sanitize_filename

\* C23: for every input, sanitize_filename returns a text of at most 200
\* characters that contains none of < > : " / \ | ? * and neither starts nor
\* ends with a space or a dot, and sanitizing the result again returns it
\* unchanged. The code does not keep the last two: it strips before it cuts
\* to 200 characters, and the cut can end on a space or a dot.
C23_SanitizedNameIsClean ==
    sanitized.called =>
        LET out == sanitized.value
        IN  /\ Len(out) <= 200
            /\ \A i \in 1..Len(out) :
                   out[i] \notin {"<", ">", ":", "\"", "/", "\\", "|", "?", "*"}
            /\ out # <<>> =>
                   /\ out[1] \notin {" ", "."}
                   /\ out[Len(out)] \notin {" ", "."}
            /\ sanitize_filename(out) = out

\* What does hold: the length, the characters and the first character; the
\* last character is clean, and the result a fixed point, whenever the
\* stripped name fits into 200 characters.
SanitizedNameCleanUnlessCut ==
    sanitized.called =>
        LET out == sanitized.value
        IN  /\ Len(out) <= 200
            /\ \A i \in 1..Len(out) :
                   out[i] \notin {"<", ">", ":", "\"", "/", "\\", "|", "?", "*"}
            /\ out # <<>> => out[1] \notin {" ", "."}
            /\ Len(StripDotsAndSpaces(filename)) <= 200 =>
                   /\ out # <<>> => out[Len(out)] \notin {" ", "."}
                   /\ sanitize_filename(out) = out


====
